---- MODULE Spec2Model ----
(***************************************************************************)
(* Model of pyDFCSR_2D/beams.py: the Beam class (construction, track,      *)
(* apply_wakes and the cached statistics).                                 *)
(*                                                                         *)
(* Real numbers are exact rationals <<n, d>> in lowest terms with d > 0;   *)
(* <<0, 0>> stands for NaN.  A standard deviation is kept as the symbolic  *)
(* square root [sqrt |-> r] of its rational radicand.                      *)
(***************************************************************************)
EXTENDS Integers, Sequences, FiniteSets, TLC

\* ------------------------------------------------------------------------
\* Exact arithmetic
\* ------------------------------------------------------------------------
Abs(n) == IF n < 0 THEN -n ELSE n

RECURSIVE GCD(_, _)
GCD(a, b) == IF b = 0 THEN a ELSE GCD(b, a % b)

NaN == <<0, 0>>

IsNaN(r) == r[2] = 0

\* n / d reduced by the common divisor g, with a positive denominator
Reduce(n, d, g) ==
    IF d < 0 THEN <<-(n \div g), -(d \div g)>> ELSE <<n \div g, d \div g>>

Rat(n, d) == IF d = 0 THEN NaN ELSE Reduce(n, d, GCD(Abs(n), Abs(d)))

R(n) == <<n, 1>>

RAdd(p, q) == IF IsNaN(p) \/ IsNaN(q) THEN NaN
              ELSE Rat(p[1] * q[2] + q[1] * p[2], p[2] * q[2])

RSub(p, q) == IF IsNaN(p) \/ IsNaN(q) THEN NaN
              ELSE Rat(p[1] * q[2] - q[1] * p[2], p[2] * q[2])

RMul(p, q) == IF IsNaN(p) \/ IsNaN(q) THEN NaN
              ELSE Rat(p[1] * q[1], p[2] * q[2])

RDiv(p, q) == IF IsNaN(p) \/ IsNaN(q) THEN NaN
              ELSE Rat(p[1] * q[2], p[2] * q[1])

RLt(p, q) == p[1] * q[2] < q[1] * p[2]

RLe(p, q) == p[1] * q[2] <= q[1] * p[2]

RSeq(ints) == [i \in 1..Len(ints) |-> R(ints[i])]

RECURSIVE RSum(_)
RSum(xs) == IF xs = <<>> THEN R(0) ELSE RAdd(xs[1], RSum(Tail(xs)))

\* ------------------------------------------------------------------------
\* numpy primitives used by the Beam properties
\* ------------------------------------------------------------------------
\* np.mean: sum / size; the mean of an empty array is nan
np_mean(xs) == RDiv(RSum(xs), R(Len(xs)))

Square(r) == RMul(r, r)

\* abs(x - m)**2, element by element
SquaredDeviations(xs, m) == [i \in 1..Len(xs) |-> Square(RSub(xs[i], m))]

\* np.std: sqrt(mean(abs(x - mean(x))**2))
np_std(xs) == [sqrt |-> np_mean(SquaredDeviations(xs, np_mean(xs)))]

\* np.polyval(p, z) for a degree-1 coefficient pair p = <<a, b>>
np_polyval(p, zs) == [i \in 1..Len(zs) |-> RAdd(RMul(p[1], zs[i]), p[2])]

\* element-wise product of two vectors
VecMul(u, v) == [i \in 1..Len(u) |-> RMul(u[i], v[i])]

\* the line with slope a through the point of means (mz, mx)
LineThrough(a, mx, mz) == <<a, RSub(mx, RMul(a, mz))>>

\* the least-squares line from the sums of n points; den is the determinant
\* n * szz - sz * sz of the normal equations
LeastSquares(n, sz, sx, sxz, den) ==
    LineThrough(RDiv(RSub(RMul(R(n), sxz), RMul(sx, sz)), den),
                RDiv(sx, R(n)), RDiv(sz, R(n)))

\* lstsq on the scaled Vandermonde matrix of n >= 1 points
lstsq(n, z1, sz, sx, szz, sxz, den) ==
    IF szz = R(0) THEN [err |-> "LinAlgError", p |-> <<NaN, NaN>>]
    ELSE IF den = R(0)
    THEN [err |-> "ok",
          p |-> <<RDiv(RDiv(sx, R(n)), RMul(R(2), z1)),
                  RDiv(RDiv(sx, R(n)), R(2))>>]
    ELSE [err |-> "ok", p |-> LeastSquares(n, sz, sx, sxz, den)]

\* lstsq without the failure on a z column of norm zero
lstsq_nan(n, z1, sz, sx, szz, sxz, den) ==
    [err |-> "ok", p |-> LeastSquares(n, sz, sx, sxz, den)]

\* the fit from the sums of the n >= 1 points
FitSums(n, z1, sz, sx, szz, sxz) ==
    lstsq(n, z1, sz, sx, szz, sxz, RSub(RMul(R(n), szz), RMul(sz, sz)))

\* FitSums without the failure on a z column of norm zero
FitSums_nan(n, z1, sz, sx, szz, sxz) ==
    lstsq_nan(n, z1, sz, sx, szz, sxz, RSub(RMul(R(n), szz), RMul(sz, sz)))

\* np_polyfit without the failure on a z column of norm zero
np_polyfit_nan(zs, xs) ==
    IF Len(zs) = 0 THEN [err |-> "TypeError", p |-> <<NaN, NaN>>]
    ELSE FitSums_nan(Len(zs), zs[1], RSum(zs), RSum(xs),
                     RSum(VecMul(zs, zs)), RSum(VecMul(xs, zs)))

\* np.polyfit(z, x, deg=1).  Raises TypeError on an empty vector.  The
\* Vandermonde columns are divided by their norms before lstsq: a z column
\* of norm 0 becomes nan and lstsq raises LinAlgError.  When all z are equal
\* (rank 1) lstsq returns the minimum-norm solution in the scaled columns,
\* which is a = mean(x) / (2 z0), b = mean(x) / 2; otherwise the ordinary
\* least-squares line.
np_polyfit(zs, xs) ==
    IF Len(zs) = 0 THEN [err |-> "TypeError", p |-> <<NaN, NaN>>]
    ELSE FitSums(Len(zs), zs[1], RSum(zs), RSum(xs),
                 RSum(VecMul(zs, zs)), RSum(VecMul(xs, zs)))

\* ------------------------------------------------------------------------
\* Program constants
\* ------------------------------------------------------------------------
\* rest-mass energy of the electron in eV (physical_constants.MC2)
MC2 == 511000

\* the literal 1e6 of the unit conversion in apply_wakes
Mega == 1000000

\* ------------------------------------------------------------------------
\* bmadx Particle and attribute access
\* ------------------------------------------------------------------------
\* bmadx.Particle(x, px, y, py, z, pz, s, p0c, mc2): a named tuple
Particle(x, px, y, py, z, pz, s, p0c, mc2) ==
    [x |-> x, px |-> px, y |-> y, py |-> py, z |-> z, pz |-> pz,
     s |-> s, p0c |-> p0c, mc2 |-> mc2]

\* self.<name> = value
SetAttr(obj, name, value) ==
    IF name \in DOMAIN obj THEN [obj EXCEPT ![name] = value]
    ELSE [a \in (DOMAIN obj) \cup {name} |-> IF a = name THEN value ELSE obj[a]]

\* ------------------------------------------------------------------------
\* Beam properties
\* ------------------------------------------------------------------------
mean_x(obj) == np_mean(obj.particle.x)

mean_z(obj) == np_mean(obj.particle.z)

sigma_x(obj) == np_std(obj.particle.x)

sigma_z(obj) == np_std(obj.particle.z)

init_energy(obj) == obj._init_energy

\* the line of best fit x = a*z + b; [err, p]
slope(obj) == np_polyfit(obj.particle.z, obj.particle.x)

VecSub(u, v) == [i \in 1..Len(u) |-> RSub(u[i], v[i])]

\* x - np.polyval(slope, z) for the fit sl
Detrend(xs, zs, sl) ==
    IF sl.err # "ok" THEN [err |-> sl.err, v |-> <<>>]
    ELSE [err |-> "ok", v |-> VecSub(xs, np_polyval(sl.p, zs))]

\* x_transform that returns the raw x
x_transform_raw(obj) == [err |-> slope(obj).err, v |-> obj.particle.x]

\* x with the x-z chirp removed; [err, v]
x_transform(obj) == Detrend(obj.particle.x, obj.particle.z, slope(obj))

\* the assignments of update_status for the fit sl, in their order: an
\* exception of the slope fit leaves _sigma_x and _sigma_z already replaced
\* and _slope, _mean_x, _mean_z as they were
StoreStatus(obj, sl) ==
    IF sl.err # "ok"
    THEN [result |-> sl.err,
          self |-> SetAttr(SetAttr(obj, "_sigma_x", sigma_x(obj)),
                           "_sigma_z", sigma_z(obj))]
    ELSE [result |-> "ok",
          self |-> SetAttr(SetAttr(SetAttr(SetAttr(SetAttr(obj,
                       "_sigma_x", sigma_x(obj)),
                       "_sigma_z", sigma_z(obj)),
                       "_slope", sl.p),
                       "_mean_x", mean_x(obj)),
                       "_mean_z", mean_z(obj))]

\* StoreStatus that stores mean_x as _mean_z
StoreStatus_wrong_mean(obj, sl) ==
    IF sl.err # "ok"
    THEN [result |-> sl.err,
          self |-> SetAttr(SetAttr(obj, "_sigma_x", sigma_x(obj)),
                           "_sigma_z", sigma_z(obj))]
    ELSE [result |-> "ok",
          self |-> SetAttr(SetAttr(SetAttr(SetAttr(SetAttr(obj,
                       "_sigma_x", sigma_x(obj)),
                       "_sigma_z", sigma_z(obj)),
                       "_slope", sl.p),
                       "_mean_x", mean_x(obj)),
                       "_mean_z", mean_x(obj))]

\* update_status that stores mean_x as _mean_z
update_status_wrong_mean(obj) == StoreStatus_wrong_mean(obj, slope(obj))

\* Refresh of the cached statistics
update_status(obj) == StoreStatus(obj, slope(obj))

\* ------------------------------------------------------------------------
\* track
\* ------------------------------------------------------------------------
\* bmadx.track_element is opaque: an element is described by its length L
\* and by the coordinates its transport produces; s advances by L and the
\* reference momentum and mass are kept.
track_element(p, element) ==
    Particle(element.coords.x, element.coords.px, element.coords.y,
             element.coords.py, element.coords.z, element.coords.pz,
             RAdd(p.s, R(element.L)), p.p0c, p.mc2)

\* track that counts every call as a step
track_counts_always(obj, element, step_size, update_step) ==
    update_status(
        SetAttr(SetAttr(SetAttr(obj, "particle",
                                track_element(obj.particle, element)),
                        "position", obj.position + step_size),
                "step", obj.step + 1))

track(obj, element, step_size, update_step) ==
    update_status(
        IF update_step
        THEN SetAttr(SetAttr(SetAttr(obj, "particle",
                                     track_element(obj.particle, element)),
                             "position", obj.position + step_size),
                     "step", obj.step + 1)
        ELSE SetAttr(SetAttr(obj, "particle",
                             track_element(obj.particle, element)),
                     "position", obj.position + step_size))

\* ------------------------------------------------------------------------
\* scipy.interpolate.RegularGridInterpolator (method linear, two axes,
\* bounds_error=False, fill_value=0.0)
\* ------------------------------------------------------------------------
\* shape of a two-dimensional array
Shape(values) == <<Len(values), IF Len(values) = 0 THEN 0 ELSE Len(values[1])>>

\* the constructor raises ValueError unless values has len(points[i])
\* entries in dimension i
RGI_shape_ok(xrange, zrange, values) ==
    Shape(values) = <<Len(xrange), Len(zrange)>>

\* searchsorted(grid, c) - 1 clipped to the first and last cell
RGI_clip(cnt, ncells) ==
    IF cnt < 1 THEN 1 ELSE IF cnt > ncells THEN ncells ELSE cnt

\* index (1-based) of the cell of grid that is used for coordinate c
RGI_find_index(grid, c) ==
    RGI_clip(Cardinality({k \in 1..Len(grid) : RLt(R(grid[k]), c)}),
             Len(grid) - 1)

\* an interpolator that extrapolates instead of filling
RGI_out_of_bounds_never(grid, c) == FALSE

RGI_out_of_bounds(grid, c) ==
    RLt(c, R(grid[1])) \/ RLt(R(grid[Len(grid)]), c)

\* the normalized distance of c from grid[i] within cell i
RGI_weight(grid, i, c) ==
    RDiv(RSub(c, R(grid[i])), R(grid[i + 1] - grid[i]))

\* the bilinear blend of the four corners of cell (i, j)
RGI_blend(values, i, j, tx, tz) ==
    RAdd(RAdd(RMul(RMul(RSub(R(1), tx), RSub(R(1), tz)), values[i][j]),
              RMul(RMul(RSub(R(1), tx), tz), values[i][j + 1])),
         RAdd(RMul(RMul(tx, RSub(R(1), tz)), values[i + 1][j]),
              RMul(RMul(tx, tz), values[i + 1][j + 1])))

\* the interpolant inside the grid, in the cell (i, j) of (cx, cz)
RGI_evaluate(xrange, zrange, values, cx, cz, i, j) ==
    RGI_blend(values, i, j, RGI_weight(xrange, i, cx), RGI_weight(zrange, j, cz))

\* value of the interpolant of values over (xrange, zrange) at (cx, cz)
RGI_call(xrange, zrange, values, cx, cz) ==
    IF RGI_out_of_bounds(xrange, cx) \/ RGI_out_of_bounds(zrange, cz)
    THEN R(0)
    ELSE RGI_evaluate(xrange, zrange, values, cx, cz,
                      RGI_find_index(xrange, cx), RGI_find_index(zrange, cz))

\* ------------------------------------------------------------------------
\* apply_wakes
\* ------------------------------------------------------------------------
\* step_size * field * 1e6 / self.init_energy, cell by cell
ScaleField(field, step_size, energy) ==
    [i \in 1..Len(field) |-> [j \in 1..Len(field[i]) |->
        RDiv(RMul(RMul(R(step_size), R(field[i][j])), R(Mega)), energy)]]

\* interp(np.array([self.x_transform, self.z]).T): one value per particle
InterpAtParticles(xrange, zrange, values, xt, zs) ==
    [i \in 1..Len(zs) |-> RGI_call(xrange, zrange, values, xt[i], zs[i])]

VecAdd(u, v) == [i \in 1..Len(u) |-> RAdd(u[i], v[i])]

\* one kick: the interpolator over (xrange, zrange) is built from the scaled
\* field, evaluated at (x_transform, z) and the values are added to the
\* momentum p; [err, v]
Kick(xrange, zrange, values, xt, zs, p) ==
    IF ~RGI_shape_ok(xrange, zrange, values)
    THEN [err |-> "ValueError", v |-> <<>>]
    ELSE IF xt.err # "ok" THEN [err |-> xt.err, v |-> <<>>]
    ELSE [err |-> "ok",
          v |-> VecAdd(p, InterpAtParticles(xrange, zrange, values, xt.v, zs))]

\* the longitudinal kick: the new pz
LongitudinalKick(obj, dE_dct, xrange, zrange, step_size) ==
    Kick(xrange, zrange, ScaleField(dE_dct, step_size, init_energy(obj)),
         x_transform(obj), obj.particle.z, obj.particle.pz)

\* a transverse kick applied whatever transverse_on says
TransverseKick_unconditional(obj, x_kick, xrange, zrange, step_size, transverse_on) ==
    Kick(xrange, zrange, ScaleField(x_kick, step_size, init_energy(obj)),
         x_transform(obj), obj.particle.z, obj.particle.px)

\* a transverse kick that skips a field of the wrong shape
TransverseKick_lenient(obj, x_kick, xrange, zrange, step_size, transverse_on) ==
    IF ~transverse_on \/ ~RGI_shape_ok(xrange, zrange, x_kick)
    THEN [err |-> "ok", v |-> obj.particle.px]
    ELSE Kick(xrange, zrange, ScaleField(x_kick, step_size, init_energy(obj)),
              x_transform(obj), obj.particle.z, obj.particle.px)

\* the transverse kick, only when transverse_on: the new px
TransverseKick(obj, x_kick, xrange, zrange, step_size, transverse_on) ==
    IF ~transverse_on THEN [err |-> "ok", v |-> obj.particle.px]
    ELSE Kick(xrange, zrange, ScaleField(x_kick, step_size, init_energy(obj)),
              x_transform(obj), obj.particle.z, obj.particle.px)

\* the Particle that replaces self.particle
KickedParticle(p, px_new, pz_new) ==
    Particle(p.x, px_new, p.y, p.py, p.z, pz_new, p.s, p.p0c, p.mc2)

\* StoreKicks that stores the longitudinal kick before the transverse one is
\* computed
StoreKicks_partial(obj, lk, tk) ==
    IF lk.err # "ok" THEN [result |-> lk.err, self |-> obj]
    ELSE IF tk.err # "ok"
    THEN [result |-> tk.err,
          self |-> SetAttr(obj, "particle",
                           KickedParticle(obj.particle, obj.particle.px, lk.v))]
    ELSE update_status(SetAttr(obj, "particle",
             KickedParticle(obj.particle, tk.v, lk.v)))

\* the end of apply_wakes: an exception of either kick leaves self as it was,
\* otherwise the particle is rebuilt with the new momenta and the statistics
\* are refreshed
StoreKicks(obj, lk, tk) ==
    IF lk.err # "ok" THEN [result |-> lk.err, self |-> obj]
    ELSE IF tk.err # "ok" THEN [result |-> tk.err, self |-> obj]
    ELSE update_status(SetAttr(obj, "particle",
             KickedParticle(obj.particle, tk.v, lk.v)))

\* apply_wakes that stores the longitudinal kick before the transverse one is
\* computed
apply_wakes_partial(obj, dE_dct, x_kick, xrange, zrange, step_size, transverse_on) ==
    StoreKicks_partial(obj,
        LongitudinalKick(obj, dE_dct, xrange, zrange, step_size),
        TransverseKick(obj, x_kick, xrange, zrange, step_size, transverse_on))

apply_wakes(obj, dE_dct, x_kick, xrange, zrange, step_size, transverse_on) ==
    StoreKicks(obj,
        LongitudinalKick(obj, dE_dct, xrange, zrange, step_size),
        TransverseKick(obj, x_kick, xrange, zrange, step_size, transverse_on))

\* ------------------------------------------------------------------------
\* Construction
\* ------------------------------------------------------------------------
SeqToSet(q) == {q[i] : i \in 1..Len(q)}

\* the list self.required_inputs of a style; <<>> for an invalid style
RequiredInputs(style) ==
    IF style = "from_file" THEN <<"style", "beamfile", "charge", "energy">>
    ELSE IF style = "distgen" THEN <<"style", "distgen_input_file">>
    ELSE IF style = "ParticleGroup" THEN <<"style", "particleGroup_h5">>
    ELSE <<>>

\* the outcome of check_inputs once the style is known to be present
CheckFields(obj, keys, required) ==
    IF required = <<>>
    THEN [result |-> "Exception", self |-> obj]
    ELSE IF \E k \in keys : k \notin SeqToSet(required \o <<"verbose">>)
    THEN [result |-> "AssertionError",
          self |-> SetAttr(obj, "required_inputs", required)]
    ELSE IF \E k \in SeqToSet(required) : k \notin keys
    THEN [result |-> "AssertionError",
          self |-> SetAttr(obj, "required_inputs", required)]
    ELSE [result |-> "ok", self |-> SetAttr(obj, "required_inputs", required)]

\* CheckFields without the test for fields that are not allowed
CheckFields_no_extra(obj, keys, required) ==
    IF required = <<>>
    THEN [result |-> "Exception", self |-> obj]
    ELSE IF \E k \in SeqToSet(required) : k \notin keys
    THEN [result |-> "AssertionError",
          self |-> SetAttr(obj, "required_inputs", required)]
    ELSE [result |-> "ok", self |-> SetAttr(obj, "required_inputs", required)]

\* check_inputs without the test for fields that are not allowed
check_inputs_no_extra(obj, input_beam) ==
    IF "style" \notin DOMAIN input_beam
    THEN [result |-> "AssertionError", self |-> obj]
    ELSE CheckFields_no_extra(obj, DOMAIN input_beam,
                              RequiredInputs(input_beam["style"]))

check_inputs(obj, input_beam) ==
    IF "style" \notin DOMAIN input_beam
    THEN [result |-> "AssertionError", self |-> obj]
    ELSE CheckFields(obj, DOMAIN input_beam, RequiredInputs(input_beam["style"]))

\* np.loadtxt of a text table: rows of unequal length are a ValueError; no
\* row or a single row gives a one-dimensional array
np_loadtxt(rows) ==
    IF \E i, j \in 1..Len(rows) : Len(rows[i]) # Len(rows[j])
    THEN [err |-> "ValueError", shape |-> <<>>]
    ELSE IF Len(rows) = 0 THEN [err |-> "ok", shape |-> <<0>>]
    ELSE IF Len(rows) = 1 THEN [err |-> "ok", shape |-> <<Len(rows[1])>>]
    ELSE [err |-> "ok", shape |-> <<Len(rows), Len(rows[1])>>]

\* column c of a table, as reals (coords.T[c])
Column(rows, c) == [i \in 1..Len(rows) |-> R(rows[i][c])]

\* Particle(*coords.T, 0, energy, MC2) for a six-column table
ParticleOfTable(rows, s, p0c, mc2) ==
    Particle(Column(rows, 1), Column(rows, 2), Column(rows, 3),
             Column(rows, 4), Column(rows, 5), Column(rows, 6), s, p0c, mc2)

\* interfaces.openpmd_to_bmadx_particles(pg, p0c, t_ref, mc2): the canonical
\* coordinates of the particle group with s = t_ref
openpmd_to_bmadx_particles(pg, p0c, t_ref, mc2) ==
    ParticleOfTable(pg.rows, t_ref, p0c, mc2)

\* the outcome of a constructor that raised e with the attributes o set
Raised(e, o, l) == [result |-> e, self |-> o, loaded |-> l]

\* the outcome of a constructor whose last statement returned r
Returned(r) == [result |-> r.result, self |-> r.self, loaded |-> TRUE]

\* the tail of __init__ shared by the three styles
InitTail(obj) ==
    Returned(update_status(
        SetAttr(SetAttr(SetAttr(obj, "_init_gamma", RDiv(obj._init_energy, R(MC2))),
                        "position", 0),
                "step", 0)))

\* the particle built from a particle group at the mean energy
InitParticleGroup(obj, pg, energy) ==
    InitTail(SetAttr(SetAttr(obj, "_init_energy", energy), "particle",
                     openpmd_to_bmadx_particles(pg, energy, R(0), R(MC2))))

\* the two branches that build the beam from a particle group
InitFromParticleGroup(obj, pg) ==
    InitParticleGroup(SetAttr(obj, "_charge", pg.charge), pg,
                      np_mean(RSeq(pg.energy)))

\* the from_file branch after the table has been read
InitFromTable(obj, input_beam, rows, coords) ==
    IF coords.err # "ok" THEN Raised(coords.err, obj, TRUE)
    ELSE IF Len(coords.shape) < 2 THEN Raised("IndexError", obj, TRUE)
    ELSE IF coords.shape[2] # 6 THEN Raised("AssertionError", obj, TRUE)
    ELSE IF "charge" \notin DOMAIN input_beam THEN Raised("KeyError", obj, TRUE)
    ELSE IF "energy" \notin DOMAIN input_beam
    THEN Raised("KeyError", SetAttr(obj, "_charge", input_beam["charge"]), TRUE)
    ELSE InitTail(
             SetAttr(SetAttr(SetAttr(obj, "_charge", input_beam["charge"]),
                             "_init_energy", R(input_beam["energy"])),
                     "particle",
                     ParticleOfTable(rows, R(0), R(input_beam["energy"]), R(MC2))))

\* the branch of __init__ chosen by the style
InitStyle(obj, input_beam, world) ==
    IF input_beam["style"] = "from_file"
    THEN IF "beamfile" \notin DOMAIN input_beam THEN Raised("KeyError", obj, FALSE)
         ELSE InitFromTable(obj, input_beam, world.file, np_loadtxt(world.file))
    ELSE IF input_beam["style"] = "distgen"
    THEN IF "distgen_input_file" \notin DOMAIN input_beam
         THEN Raised("KeyError", obj, FALSE)
         ELSE InitFromParticleGroup(obj, world.pg)
    ELSE IF "ParticleGroup_h5" \notin DOMAIN input_beam
         THEN Raised("KeyError", obj, FALSE)
         ELSE InitFromParticleGroup(obj, world.pg)

\* __init__ after check_inputs returned chk
InitChecked(chk, input_beam, world) ==
    IF chk.result # "ok" THEN Raised(chk.result, chk.self, FALSE)
    ELSE InitStyle(SetAttr(SetAttr(chk.self, "input_beam_config", input_beam),
                           "style", input_beam["style"]),
                   input_beam, world)

\* Beam.__init__(input_beam); world is what the paths of input_beam hold:
\* world.file the text table and world.pg the particle group
Beam__init__(input_beam, world) ==
    InitChecked(check_inputs(<<>>, input_beam), input_beam, world)

\* ------------------------------------------------------------------------
\* Bounds and input domains
\* ------------------------------------------------------------------------
\* number of track / apply_wakes calls made on one beam
MaxCalls == 2

Keys == {"style", "beamfile", "charge", "energy", "distgen_input_file",
         "particleGroup_h5", "ParticleGroup_h5", "verbose"}

StyleVals == {"from_file", "distgen", "ParticleGroup", "h5"}

EnergyVals == {1000000, 2000000}

\* the dictionary with the given keys
MkInput(keys, sty, en) ==
    [k \in keys |-> IF k = "style" THEN sty
                    ELSE IF k = "energy" THEN en
                    ELSE IF k = "charge" THEN 1
                    ELSE IF k = "verbose" THEN "True"
                    ELSE "path"]

Inputs == {MkInput(keys, sty, en) :
             keys \in SUBSET Keys, sty \in StyleVals, en \in EnergyVals}

\* a row x, px, y, py, z, pz
Row(x, z) == <<x, 1, 2, 3, z, 4>>

T1 == <<Row(1, 1)>>
T1z == <<Row(1, 0)>>
T2 == <<Row(-1, -1), Row(1, 1)>>
T2z == <<Row(1, 0), Row(2, 0)>>
T2s == <<Row(0, 1), Row(2, 1)>>
T3 == <<Row(-2, -1), Row(0, 0), Row(2, 1)>>
T3b == <<Row(-1, -1), Row(0, 0), Row(3, 1)>>
T3c == <<Row(1, -2), Row(-1, 0), Row(0, 2)>>
T5c == <<<<0, 1, 2, 3, 4>>, <<1, 1, 2, 3, 5>>>>
Trag == <<Row(0, 0), <<1, 1, 2, 3, 5>>>>

\* per-particle energies of a particle group of n particles
PGEnergy(n) == [i \in 1..n |-> IF i % 2 = 1 THEN 1000000 ELSE 3000000]

PG(rows) == [rows |-> rows, charge |-> 1, energy |-> PGEnergy(Len(rows))]

World(file, pgrows) == [file |-> file, pg |-> PG(pgrows)]

Worlds == {World(<<>>, <<>>), World(T1, T1), World(T5c, T1z),
           World(Trag, T2), World(T2, T2), World(T2z, T2z), World(T2s, T2s),
           World(T3, T3), World(T3b, T3b), World(T3c, T3c)}

\* the constructions the call sequences start from
FromFile(en) == MkInput({"style", "beamfile", "charge", "energy"}, "from_file", en)

Distgen == MkInput({"style", "distgen_input_file"}, "distgen", 1000000)

InitCases == {<<FromFile(1000000), World(T3, T3)>>,
              <<FromFile(2000000), World(T3c, T3c)>>,
              <<Distgen, World(T1, T1)>>,
              <<Distgen, World(T2, T2)>>}

\* lattice elements: length and the coordinates the transport produces
Coords(rows) == ParticleOfTable(rows, R(0), R(0), R(0))

Elements == {[L |-> 1, coords |-> Coords(t)] :
               t \in {T1, T1z, T2, T2z, T2s, T3, T3b, T3c}}

StepSizes == {1, 2}

\* wake grids
Const(nx, nz, c) == [i \in 1..nx |-> [j \in 1..nz |-> c]]

Ramp(nx, nz) == [i \in 1..nx |-> [j \in 1..nz |-> i + 2 * j]]

Grid(xrange, zrange, dE_dct, x_kick) ==
    [xrange |-> xrange, zrange |-> zrange, dE_dct |-> dE_dct, x_kick |-> x_kick]

WakeGrids ==
    {Grid(<<-1, 1>>, <<-1, 1>>, Const(2, 2, 1), Const(2, 2, 2)),
     Grid(<<-1, 1>>, <<-1, 1>>, Ramp(2, 2), Ramp(2, 2)),
     Grid(<<-1, 1>>, <<-2, 0, 2>>, Ramp(2, 3), Ramp(2, 3)),
     Grid(<<-2, 0, 2>>, <<-2, 0, 2>>, Const(3, 3, 1), Ramp(3, 3)),
     Grid(<<-1, 1>>, <<-2, 0, 2>>, Const(2, 2, 1), Ramp(2, 3)),
     Grid(<<-1, 1>>, <<-1, 1>>, Ramp(2, 2), Const(3, 2, 2)),
     Grid(<<-2, 0, 2>>, <<-1, 1>>, Ramp(2, 2), Const(2, 2, 2))}

\* ------------------------------------------------------------------------
\* State and actions
\* ------------------------------------------------------------------------
VARIABLES
    self,     \* the attributes of the Beam object (its __dict__)
    call,     \* the last call and its arguments
    result,   \* "ok" or the exception the last call raised
    loaded,   \* the particle source has been read by the constructor
    log       \* the calls made on the beam since construction

vars == <<self, call, result, loaded, log>>

\* before construction
InitCtor ==
    /\ self = <<>>
    /\ call = [op |-> "none"]
    /\ result = "none"
    /\ loaded = FALSE
    /\ log = <<>>

Construct ==
    /\ call.op = "none"
    /\ \E input_beam \in Inputs, world \in Worlds :
         \E r \in {Beam__init__(input_beam, world)} :
             /\ self' = r.self
             /\ result' = r.result
             /\ loaded' = r.loaded
             /\ call' = [op |-> "__init__", input_beam |-> input_beam,
                         world |-> world]
    /\ UNCHANGED log

NextCtor == Construct

SpecCtor == InitCtor /\ [][NextCtor]_vars

\* after a construction that returned
Init ==
    \E c \in InitCases :
        \E r \in {Beam__init__(c[1], c[2])} :
            /\ r.result = "ok"
            /\ self = r.self
            /\ result = r.result
            /\ loaded = r.loaded
            /\ call = [op |-> "__init__", input_beam |-> c[1], world |-> c[2]]
            /\ log = <<>>

NumParticles(obj) == Len(obj.particle.x)

Track ==
    /\ Len(log) < MaxCalls
    /\ \E element \in Elements, step_size \in StepSizes, update_step \in BOOLEAN :
         /\ Len(element.coords.x) = NumParticles(self)
         /\ \E r \in {track(self, element, step_size, update_step)} :
                /\ self' = r.self
                /\ result' = r.result
                /\ call' = [op |-> "track", element |-> element,
                            step_size |-> step_size, update_step |-> update_step]
                /\ log' = Append(log, [op |-> "track", step_size |-> step_size,
                                       update_step |-> update_step])
    /\ UNCHANGED loaded

ApplyWakes ==
    /\ Len(log) < MaxCalls
    /\ \E g \in WakeGrids, step_size \in StepSizes, transverse_on \in BOOLEAN :
         \E r \in {apply_wakes(self, g.dE_dct, g.x_kick, g.xrange, g.zrange,
                               step_size, transverse_on)} :
             /\ self' = r.self
             /\ result' = r.result
             /\ call' = [op |-> "apply_wakes", dE_dct |-> g.dE_dct,
                         x_kick |-> g.x_kick, xrange |-> g.xrange,
                         zrange |-> g.zrange, step_size |-> step_size,
                         transverse_on |-> transverse_on]
             /\ log' = Append(log, [op |-> "apply_wakes", step_size |-> 0,
                                    update_step |-> FALSE])
    /\ UNCHANGED loaded

Next == Track \/ ApplyWakes

Spec == Init /\ [][Next]_vars

\* ------------------------------------------------------------------------
\* Properties
\* ------------------------------------------------------------------------
RECURSIVE PositionOfLog(_)
PositionOfLog(l) ==
    IF l = <<>> THEN 0
    ELSE (IF l[1].op = "track" THEN l[1].step_size ELSE 0) + PositionOfLog(Tail(l))

RECURSIVE StepsOfLog(_)
StepsOfLog(l) ==
    IF l = <<>> THEN 0
    ELSE (IF l[1].op = "track" /\ l[1].update_step THEN 1 ELSE 0)
         + StepsOfLog(Tail(l))

\* C1: position is the sum of the step_size arguments of all track calls made
\* so far and step is the number of track calls made with update_step true;
\* a call with update_step false advances position only.
C1_PositionAndStep ==
    /\ self.position = PositionOfLog(log)
    /\ self.step = StepsOfLog(log)

\* a logical step split into two track calls, the first with update_step
\* false, is counted once
C1_Witness ==
    /\ Len(log) = 2
    /\ log[1].op = "track" /\ ~log[1].update_step
    /\ log[2].op = "track" /\ log[2].update_step
    /\ self.step = 1
    /\ self.position = log[1].step_size + log[2].step_size

WakeReturned == call.op = "apply_wakes" /\ result = "ok"

\* C2: a successful apply_wakes leaves x, y, z, py, s, p0c, mc2, the charge,
\* init_energy, position and step as they were, and px as well when
\* transverse_on is false.
C2_WakeFrame ==
    [][(WakeReturned') =>
         /\ self'.particle.x = self.particle.x
         /\ self'.particle.y = self.particle.y
         /\ self'.particle.z = self.particle.z
         /\ self'.particle.py = self.particle.py
         /\ self'.particle.s = self.particle.s
         /\ self'.particle.p0c = self.particle.p0c
         /\ self'.particle.mc2 = self.particle.mc2
         /\ (~call'.transverse_on => self'.particle.px = self.particle.px)
         /\ self'._charge = self._charge
         /\ self'._init_energy = self._init_energy
         /\ self'.position = self.position
         /\ self'.step = self.step]_vars

\* a longitudinal-only kick was applied to a freshly constructed beam: pz
\* moved and px did not
C2_Witness ==
    /\ Len(log) = 1
    /\ WakeReturned
    /\ ~call.transverse_on
    /\ \A i \in 1..NumParticles(self) :
         self.particle.pz[i] # R(4) /\ self.particle.px[i] = R(1)

ShapeMatches(field, xrange, zrange) ==
    /\ Len(field) = Len(xrange)
    /\ \A i \in 1..Len(field) : Len(field[i]) = Len(zrange)

FitDefined(obj) == slope(obj).err = "ok"

\* C3 as stated: apply_wakes fails with the shape-mismatch error whenever
\* dE_dct or x_kick does not have the shape (len(xrange), len(zrange)), for
\* either value of transverse_on.
C3_Original ==
    (call.op = "apply_wakes"
       /\ (~ShapeMatches(call.dE_dct, call.xrange, call.zrange)
           \/ ~ShapeMatches(call.x_kick, call.xrange, call.zrange)))
    => result = "ValueError"

\* C3 amended: a mismatched dE_dct is a shape-mismatch error for either value
\* of transverse_on; a mismatched x_kick is one only when transverse_on is
\* true (and the slope fit of the current coordinates does not fail first);
\* with transverse_on false x_kick is not examined and the call returns.
C3_ShapeMismatch ==
    call.op = "apply_wakes" =>
        LET dEok == ShapeMatches(call.dE_dct, call.xrange, call.zrange)
            xkok == ShapeMatches(call.x_kick, call.xrange, call.zrange)
        IN  /\ ~dEok => result = "ValueError"
            /\ (dEok /\ ~xkok /\ call.transverse_on) => result # "ok"
            /\ (dEok /\ ~xkok /\ call.transverse_on /\ FitDefined(self))
                  => result = "ValueError"
            /\ (dEok /\ ~xkok /\ ~call.transverse_on /\ FitDefined(self))
                  => result = "ok"

\* a mismatched dE_dct was rejected with the transverse kick switched off
C3_Witness ==
    /\ call.op = "apply_wakes"
    /\ ~ShapeMatches(call.dE_dct, call.xrange, call.zrange)
    /\ ~call.transverse_on
    /\ result = "ValueError"

\* C4: an apply_wakes call that raises leaves the particle coordinates,
\* position, step and the cached statistics as they were before the call.
C4_FailedWakeNoMutation ==
    [][(call'.op = "apply_wakes" /\ result' # "ok") =>
         /\ self'.particle = self.particle
         /\ self'.position = self.position
         /\ self'.step = self.step
         /\ self'._sigma_x = self._sigma_x
         /\ self'._sigma_z = self._sigma_z
         /\ self'._slope = self._slope
         /\ self'._mean_x = self._mean_x
         /\ self'._mean_z = self._mean_z]_vars

\* the call failed on x_kick after the longitudinal kick had been computed
C4_Witness ==
    /\ call.op = "apply_wakes"
    /\ result = "ValueError"
    /\ call.transverse_on
    /\ ShapeMatches(call.dE_dct, call.xrange, call.zrange)
    /\ ~ShapeMatches(call.x_kick, call.xrange, call.zrange)
    /\ FitDefined(self)

\* the fields the documentation of each style asks for
StyleFields(style) ==
    IF style = "from_file" THEN {"style", "beamfile", "charge", "energy"}
    ELSE IF style = "distgen" THEN {"style", "distgen_input_file"}
    ELSE {"style", "particleGroup_h5"}

KnownStyles == {"from_file", "distgen", "ParticleGroup"}

RejectedByValidation == result \in {"AssertionError", "Exception"} /\ ~loaded

\* C5: for each of the three styles an input with exactly the fields that
\* check_inputs requires (optionally plus verbose) passes validation and the
\* constructor reads only fields that are present.
C5_EveryStyleConstructs ==
    (/\ call.op = "__init__"
     /\ "style" \in DOMAIN call.input_beam
     /\ call.input_beam["style"] \in KnownStyles
     /\ (DOMAIN call.input_beam) \ {"verbose"}
           = StyleFields(call.input_beam["style"]))
    => (~RejectedByValidation /\ result # "KeyError")

BadConfig(d) ==
    \/ "style" \notin DOMAIN d
    \/ d["style"] \notin KnownStyles
    \/ \E k \in StyleFields(d["style"]) : k \notin DOMAIN d
    \/ \E k \in DOMAIN d : k \notin StyleFields(d["style"]) \cup {"verbose"}

SixColumns(rows) == \A i \in 1..Len(rows) : Len(rows[i]) = 6

\* C6: construction fails in validation, before the particle source is read
\* and before position, step or particle are set, when style is absent or not
\* recognized, a required field is missing or a field outside the required
\* ones and verbose is present; a from_file table whose rows do not have six
\* columns is rejected.
C6_ConfigurationErrors ==
    call.op = "__init__" =>
        /\ BadConfig(call.input_beam) =>
              /\ RejectedByValidation
              /\ {"position", "step", "particle"} \cap DOMAIN self = {}
        /\ (/\ ~BadConfig(call.input_beam)
            /\ call.input_beam["style"] = "from_file"
            /\ ~SixColumns(call.world.file))
              => (result # "ok" /\ "particle" \notin DOMAIN self)

\* a from_file input with all its fields and one foreign field was rejected
C6_Witness ==
    /\ call.op = "__init__"
    /\ DOMAIN call.input_beam
         = {"style", "beamfile", "charge", "energy", "distgen_input_file"}
    /\ call.input_beam["style"] = "from_file"
    /\ result = "AssertionError"
    /\ ~loaded

\* C7: after every call that returned, the cached statistics are the values
\* the accessors compute from the current coordinates.
C7_CacheConsistent ==
    result = "ok" =>
        /\ self._mean_x = mean_x(self)
        /\ self._mean_z = mean_z(self)
        /\ self._sigma_x = sigma_x(self)
        /\ self._sigma_z = sigma_z(self)
        /\ self._slope = slope(self).p

\* a kick applied after a track that changed the coordinates
C7_Witness ==
    /\ Len(log) = 2
    /\ log[1].op = "track"
    /\ WakeReturned
    /\ self._sigma_z = sigma_z(self)
    /\ self._slope = slope(self).p

\* x minus the fitted line a*z + b, with the coefficients of the cached fit
Dechirped(obj) ==
    [i \in 1..NumParticles(obj) |->
        RSub(obj.particle.x[i],
             RAdd(RMul(obj._slope[1], obj.particle.z[i]), obj._slope[2]))]

\* (cx, cz) lies outside the rectangle spanned by the axes
OutOfRange(cx, cz, xrange, zrange) ==
    \/ RLt(cx, R(xrange[1])) \/ RLt(R(xrange[Len(xrange)]), cx)
    \/ RLt(cz, R(zrange[1])) \/ RLt(R(zrange[Len(zrange)]), cz)

FieldValues(field) ==
    {field[i][j] : i \in 1..Len(field), j \in 1..Len(field[1])}

FieldMin(field) == CHOOSE v \in FieldValues(field) : \A w \in FieldValues(field) : v <= w

FieldMax(field) == CHOOSE v \in FieldValues(field) : \A w \in FieldValues(field) : w <= v

\* step_size * v * 1e6 / init_energy
Scaled(v, step_size, energy) == RDiv(R(step_size * v * 1000000), energy)

ShapesValid(c) ==
    /\ ShapeMatches(c.dE_dct, c.xrange, c.zrange)
    /\ c.transverse_on => ShapeMatches(c.x_kick, c.xrange, c.zrange)

\* the kick lies between the scaled extremes of the field
KickWithin(kick, field, step_size, energy) ==
    /\ RLe(Scaled(FieldMin(field), step_size, energy), kick)
    /\ RLe(kick, Scaled(FieldMax(field), step_size, energy))

\* C8: in a successful apply_wakes a particle whose (x_transform, z) lies
\* outside the axes keeps its pz and px exactly, a particle inside receives a
\* kick interpolated from the field, and the call does not fail because of
\* where the particles are: with matching shapes and a defined fit it returns.
C8_ZeroKickOutside ==
    [][(call'.op = "apply_wakes") =>
         LET c  == call'
             p  == self.particle
             q  == self'.particle
             xt == Dechirped(self)
             E  == self._init_energy
         IN  /\ (ShapesValid(c) /\ FitDefined(self)) => result' = "ok"
             /\ result' = "ok" =>
                  \A i \in 1..NumParticles(self) :
                     IF OutOfRange(xt[i], p.z[i], c.xrange, c.zrange)
                     THEN q.pz[i] = p.pz[i] /\ q.px[i] = p.px[i]
                     ELSE /\ KickWithin(RSub(q.pz[i], p.pz[i]), c.dE_dct,
                                        c.step_size, E)
                          /\ c.transverse_on =>
                               KickWithin(RSub(q.px[i], p.px[i]), c.x_kick,
                                          c.step_size, E)]_vars

\* one call kicked a particle inside the grid and left one outside untouched
C8_Witness ==
    /\ Len(log) = 1
    /\ WakeReturned
    /\ call.transverse_on
    /\ \E i, j \in 1..NumParticles(self) :
         /\ OutOfRange(Dechirped(self)[i], self.particle.z[i],
                       call.xrange, call.zrange)
         /\ self.particle.pz[i] = R(4) /\ self.particle.px[i] = R(1)
         /\ ~OutOfRange(Dechirped(self)[j], self.particle.z[j],
                        call.xrange, call.zrange)
         /\ self.particle.pz[j] # R(4) /\ self.particle.px[j] # R(1)

IsConstField(field) == \A v \in FieldValues(field) : v = field[1][1]

AllCovered(obj, xrange, zrange) ==
    \A i \in 1..NumParticles(obj) :
        ~OutOfRange(Dechirped(obj)[i], obj.particle.z[i], xrange, zrange)

\* C9: for a constant field c over axes that cover every particle's
\* (x_transform, z), apply_wakes adds step_size * c * 1e6 / init_energy to
\* every pz, whatever the raw x.
C9_ConstantField ==
    [][(/\ WakeReturned'
        /\ IsConstField(call'.dE_dct)
        /\ AllCovered(self, call'.xrange, call'.zrange)) =>
         \A i \in 1..NumParticles(self) :
            self'.particle.pz[i]
              = RAdd(self.particle.pz[i],
                     Scaled(call'.dE_dct[1][1], call'.step_size,
                            self._init_energy))]_vars

\* the kick reached particles whose raw x is outside xrange
C9_Witness ==
    /\ Len(log) = 1
    /\ WakeReturned
    /\ IsConstField(call.dE_dct)
    /\ AllCovered(self, call.xrange, call.zrange)
    /\ \E i \in 1..NumParticles(self) :
         RLt(R(call.xrange[Len(call.xrange)]), self.particle.x[i])
    /\ \A i \in 1..NumParticles(self) :
         self.particle.pz[i]
           = RAdd(R(4), Scaled(call.dE_dct[1][1], call.step_size,
                               self._init_energy))

AllZeroZ(obj) == \A i \in 1..NumParticles(obj) : obj.particle.z[i] = R(0)

====
